---------------------------- MODULE Spec2Model ----------------------------
(***************************************************************************)
(* A model of the FFMPEG class of src/src/ffmpeg.ts: the lifecycle of the  *)
(* external process of one instance (start, stop, the child's 'close' and  *)
(* 'error' handlers) and the extraction of progress fields from the        *)
(* chunks of the child's stderr (onStderrData).                            *)
(*                                                                         *)
(* Text is a sequence of one-character strings.  Numbers are exact         *)
(* rationals <<n, d>> (d > 0, lowest terms); NaN is JavaScript's           *)
(* not-a-number and Null is JavaScript's null.                             *)
(***************************************************************************)
EXTENDS Integers, Sequences, FiniteSets, TLC

VARIABLES
    child,        \* this.child: Null or the id of the process it refers to
    lastStderr,   \* this.lastStderr: trailing stderr text
    progress,     \* this._progress: the progress snapshot
    killed,       \* this._killed
    procs,        \* the child processes spawned so far, by id
    promise,      \* the promise returned by the start() that spawned process p
    nspawned,     \* number of processes spawned so far (the last id given out)
    nchunks,      \* number of output chunks delivered so far
    emitted,      \* the events emitted by the last step, in order
    last,         \* what the last step was, its input and its return value
    received      \* history: the stderr chunks handled since the most recent
                  \* start() that passed the already-started check, in order

vars == <<child, lastStderr, progress, killed, procs, promise, nspawned,
          nchunks, emitted, last, received>>

(***************************************************************************)
(* Bounds of the model.                                                    *)
(***************************************************************************)
\* Number of processes one instance may spawn in a behaviour.
MaxProcs == 2
\* Number of output chunks delivered in a behaviour of the lifecycle
\* specification, and of the parsing one.
MaxChunks == 1
MaxParseChunks == 3
\* Number of stderr chunks delivered in a behaviour of the buffer specification.
MaxBufChunks == 3

\* JavaScript's null and NaN, as values no number <<n, d>> is equal to.
Null == <<"null">>
NaN == <<"NaN">>

(***************************************************************************)
(* Numbers: exact rationals in lowest terms.                               *)
(***************************************************************************)
RECURSIVE GCD(_, _)
GCD(a, b) == IF b = 0 THEN a ELSE GCD(b, a % b)

Rat(n, d) == LET g == GCD(n, d) IN IF g = 0 THEN <<0, 1>> ELSE <<n \div g, d \div g>>
RatInt(n) == <<n, 1>>
RatAdd(x, y) == Rat(x[1] * y[2] + y[1] * x[2], x[2] * y[2])
RatMul(x, y) == Rat(x[1] * y[1], x[2] * y[2])
\* x / y for y > 0
RatDiv(x, y) == Rat(x[1] * y[2], x[2] * y[1])
RatLeq(x, y) == x[1] * y[2] <= y[1] * x[2]
RatLt(x, y) == x[1] * y[2] < y[1] * x[2]
IsNumber(v) == v # Null /\ v # NaN

(***************************************************************************)
(* Characters and character classes of the regular expressions.            *)
(***************************************************************************)
Digit == {"0", "1", "2", "3", "4", "5", "6", "7", "8", "9"}
\* \s of the chunks' alphabet
Space == {" ", "\t", "\n", "\r"}
\* [\d\.] and [\d.]
DigitOrDot == Digit \cup {"."}

DigitVal(c) ==
    CASE c = "0" -> 0 [] c = "1" -> 1 [] c = "2" -> 2 [] c = "3" -> 3
      [] c = "4" -> 4 [] c = "5" -> 5 [] c = "6" -> 6 [] c = "7" -> 7
      [] c = "8" -> 8 [] c = "9" -> 9

RECURSIVE Pow10(_)
Pow10(k) == IF k = 0 THEN 1 ELSE 10 * Pow10(k - 1)

\* The value of a sequence of decimal digits (0 for the empty sequence).
RECURSIVE DigitsVal(_)
DigitsVal(s) ==
    IF s = <<>> THEN 0
    ELSE 10 * DigitsVal(SubSeq(s, 1, Len(s) - 1)) + DigitVal(s[Len(s)])

\* The length of the longest prefix of s from position pos made of characters
\* of cls, at most max long.
RECURSIVE Run(_, _, _, _)
Run(s, cls, pos, max) ==
    IF max = 0 \/ pos > Len(s) \/ s[pos] \notin cls THEN 0
    ELSE 1 + Run(s, cls, pos + 1, max - 1)

\* parseInt(s, 10) of a text: the leading digits, NaN when there is none.
ParseInt(s) ==
    LET n == Run(s, Digit, 1, Len(s))
    IN  IF n = 0 THEN NaN ELSE RatInt(DigitsVal(SubSeq(s, 1, n)))

\* parseFloat(s) of a text of digits and dots: the longest prefix that is a
\* decimal literal (digits, then optionally a dot and digits; or a dot and
\* digits), NaN when no prefix is one.
ParseFloat(s) ==
    LET ni == Run(s, Digit, 1, Len(s))
        dot == ni + 1 <= Len(s) /\ s[ni + 1] = "."
        nf == IF dot THEN Run(s, Digit, ni + 2, Len(s)) ELSE 0
    IN  IF ni = 0 /\ nf = 0 THEN NaN
        ELSE Rat(DigitsVal(SubSeq(s, 1, ni)) * Pow10(nf)
                   + DigitsVal(SubSeq(s, ni + 2, ni + 1 + nf)),
                 Pow10(nf))

(***************************************************************************)
(* The literal texts of the patterns of onStderrData.                      *)
(***************************************************************************)
DurationLit == <<"D", "u", "r", "a", "t", "i", "o", "n", ":", " ">>
FrameLit == <<"f", "r", "a", "m", "e", "=">>
FpsLit == <<"f", "p", "s", "=">>
QLit == <<"q", "=">>
SizeLit == <<"s", "i", "z", "e", "=">>
KBLit == <<"k", "B">>
TimeLit == <<"t", "i", "m", "e", "=">>
BitrateLit == <<"b", "i", "t", "r", "a", "t", "e", "=">>
KbitLit == <<"k", "b", "i", "t">>
PerSecLit == <<"/", "s">>
SpeedLit == <<"s", "p", "e", "e", "d", "=">>
XLit == <<"x">>

(***************************************************************************)
(* Regular expressions.  A pattern is a sequence of alternatives tried in  *)
(* order at each start position; an alternative is a sequence of elements, *)
(* each a character class repeated greedily (min..1 times, or min..any     *)
(* when many), with backtracking, as String.prototype.match does.          *)
(***************************************************************************)
One(c) == [cls |-> {c}, min |-> 1, many |-> FALSE]
Opt(c) == [cls |-> {c}, min |-> 0, many |-> FALSE]
Star(cls) == [cls |-> cls, min |-> 0, many |-> TRUE]
Plus(cls) == [cls |-> cls, min |-> 1, many |-> TRUE]
Lit(str) == [i \in 1..Len(str) |-> One(str[i])]

\* The positions where the elements k.. of alt start when they match s from
\* pos (the last entry is the position after the match); <<>> when they do
\* not match.  TryRun tries element k over n characters, then over fewer.
RECURSIVE MatchFrom(_, _, _, _), TryRun(_, _, _, _, _)
TryRun(s, alt, k, pos, n) ==
    IF n < alt[k].min THEN <<>>
    ELSE LET r == MatchFrom(s, alt, k + 1, pos + n)
         IN  IF r # <<>> THEN <<pos>> \o r ELSE TryRun(s, alt, k, pos, n - 1)
MatchFrom(s, alt, k, pos) ==
    IF k > Len(alt) THEN <<pos>>
    ELSE TryRun(s, alt, k, pos,
                Run(s, alt[k].cls, pos, IF alt[k].many THEN Len(s) ELSE 1))

NoMatch == <<>>

RECURSIVE TryAlts(_, _, _, _)
TryAlts(s, alts, pos, i) ==
    IF i > Len(alts) THEN NoMatch
    ELSE LET b == MatchFrom(s, alts[i], 1, pos)
         IN  IF b # <<>> THEN <<i, b>> ELSE TryAlts(s, alts, pos, i + 1)

\* s.match(pattern) is FirstMatch: the leftmost match <<alternative, positions>>,
\* NoMatch (the null that match returns) when there is none.
MatchAt(s, alts, pos) == TryAlts(s, alts, pos, 1)
FirstMatch(s, alts) ==
    LET starts == {pos \in 1..(Len(s) + 1) : MatchAt(s, alts, pos) # NoMatch}
    IN  IF starts = {} THEN NoMatch
        ELSE MatchAt(s, alts, CHOOSE pos \in starts : \A other \in starts : pos <= other)

\* The text matched by elements k..j of the alternative that matched.
Group(s, m, k, j) == SubSeq(s, m[2][k], m[2][j + 1] - 1)

\* (\d+):(\d+):(\d+(\.\d+)?) after a literal prefix: with the fraction, then
\* without it.  The digits before ':' and the greedy last \d+ leave one way to
\* match the part before the optional group, so trying the group first at each
\* start position is the order of the backtracking matcher.
HMSPattern(prefix) ==
    LET head == Lit(prefix) \o <<Plus(Digit), One(":"), Plus(Digit), One(":"), Plus(Digit)>>
    IN  <<head \o <<One("."), Plus(Digit)>>, head>>

\* /Duration: (\d+):(\d+):(\d+(\.\d+)?)/
DurationPattern == HMSPattern(DurationLit)
\* /frame=\s*(\d+)\s*fps=/
FramePattern == <<Lit(FrameLit) \o <<Star(Space), Plus(Digit), Star(Space)>> \o Lit(FpsLit)>>
\* /fps=\s*([\d\.]+)\s*q=/
FpsPattern == <<Lit(FpsLit) \o <<Star(Space), Plus(DigitOrDot), Star(Space)>> \o Lit(QLit)>>
\* /q=\s*([\d\.]+)/
QPattern == <<Lit(QLit) \o <<Star(Space), Plus(DigitOrDot)>>>>
\* /size=\s*([\d.]+)kB/
SizePattern == <<Lit(SizeLit) \o <<Star(Space), Plus(DigitOrDot)>> \o Lit(KBLit)>>
\* /time=(\d+):(\d+):(\d+(\.\d+)?)/
TimePattern == HMSPattern(TimeLit)
\* /bitrate=\s*([\d.]+)kbits?\/s/
BitratePattern ==
    <<Lit(BitrateLit) \o <<Star(Space), Plus(DigitOrDot)>> \o Lit(KbitLit)
        \o <<Opt("s")>> \o Lit(PerSecLit)>>
\* /speed=\s*([\d\.]+)x/
SpeedPattern == <<Lit(SpeedLit) \o <<Star(Space), Plus(DigitOrDot)>> \o Lit(XLit)>>

\* The captures of a match m of HMSPattern(prefix) in s: m[1], m[2], m[3].
Hours(s, m, prefix) == Group(s, m, Len(prefix) + 1, Len(prefix) + 1)
Minutes(s, m, prefix) == Group(s, m, Len(prefix) + 3, Len(prefix) + 3)
Seconds(s, m, prefix) ==
    Group(s, m, Len(prefix) + 5, IF m[1] = 1 THEN Len(prefix) + 7 ELSE Len(prefix) + 5)
\* The capture m[1] of the other patterns: the element after the \s* that
\* follows the literal prefix.
Capture(s, m, prefix) == Group(s, m, Len(prefix) + 2, Len(prefix) + 2)

\* hours * 3600 + minutes * 60 + seconds
HMSSeconds(hours, minutes, seconds) ==
    RatAdd(RatAdd(RatMul(hours, RatInt(3600)), RatMul(minutes, RatInt(60))), seconds)

(***************************************************************************)
(* The chunks the processes write.                                         *)
(***************************************************************************)
\* const MAX_STDERR_LENGTH = 32_000
MAX_STDERR_LENGTH == 32000

ChunkDuration == <<" ", " ", "D", "u", "r", "a", "t", "i", "o", "n", ":", " ", "0", "0", ":", "0", "0", ":", "1", "0", ".", "5", "0", ",", " ", "s", "t", "a", "r", "t", ":", " ", "0", ".", "0", "\n">>
ChunkStats == <<"f", "r", "a", "m", "e", "=", " ", " ", " ", "1", "2", " ", "f", "p", "s", "=", " ", "2", "5", " ", "q", "=", "2", "8", ".", "0", " ", "s", "i", "z", "e", "=", " ", " ", " ", " ", " ", "2", "5", "6", "k", "B", " ", "t", "i", "m", "e", "=", "0", "0", ":", "0", "0", ":", "0", "5", ".", "2", "5", " ", "b", "i", "t", "r", "a", "t", "e", "=", " ", "3", "9", "9", ".", "4", "k", "b", "i", "t", "s", "/", "s", " ", "s", "p", "e", "e", "d", "=", "1", ".", "5", "x">>
ChunkLate == <<"t", "i", "m", "e", "=", "0", "0", ":", "0", "0", ":", "2", "1", ".", "0", "0", " ", "b", "i", "t", "r", "a", "t", "e", "=", "N", "/", "A", " ", "s", "p", "e", "e", "d", "=", "2", "x">>
ChunkBadNumbers == <<"f", "r", "a", "m", "e", "=", " ", "7", " ", "f", "p", "s", "=", " ", ".", " ", "q", "=", ".", ".", " ", "s", "i", "z", "e", "=", ".", "k", "B", " ", "t", "i", "m", "e", "=", "0", "0", ":", "0", "0", ":", "0", "1", " ", "b", "i", "t", "r", "a", "t", "e", "=", ".", ".", ".", "k", "b", "i", "t", "/", "s", " ", "s", "p", "e", "e", "d", "=", " ", ".", "x">>
ChunkZeroDuration == <<"D", "u", "r", "a", "t", "i", "o", "n", ":", " ", "0", "0", ":", "0", "0", ":", "0", "0", ".", "0", "0">>
ChunkOtherDuration == <<"D", "u", "r", "a", "t", "i", "o", "n", ":", " ", "0", "0", ":", "0", "1", ":", "0", "0">>
ChunkNoise == <<"P", "r", "e", "s", "s", " ", "[", "q", "]", " ", "t", "o", " ", "s", "t", "o", "p">>

\* The stderr and stdout chunks of the lifecycle specification, and the
\* stderr chunks of the parsing one.
Chunks == {ChunkDuration, ChunkLate}
StdoutChunks == {ChunkNoise}
ParseChunks ==
    {ChunkDuration, ChunkStats, ChunkLate, ChunkBadNumbers, ChunkZeroDuration,
     ChunkOtherDuration, ChunkNoise}

\* The stderr chunks of the specification of several runs.
RunChunks ==
    {ChunkDuration, ChunkStats, ChunkLate, ChunkZeroDuration, ChunkOtherDuration}

\* Two long chunks of the buffer specification: a duration line, a statistics
\* line and padding, half the length of the trailing buffer and one character
\* more, so that two chunks fill the buffer exactly or exceed it by one.
Filler(c, n) == [i \in 1..n |-> c]
LongChunk(c, n) ==
    ChunkDuration \o ChunkStats \o Filler(c, n - Len(ChunkDuration) - Len(ChunkStats))
ChunkHalf == LongChunk("a", MAX_STDERR_LENGTH \div 2)
ChunkOverHalf == LongChunk("b", MAX_STDERR_LENGTH \div 2 + 1)
BufChunks == {ChunkHalf, ChunkOverHalf}

\* The patterns of onStderrData by name, and data.match(pattern) for the
\* chunks of the model, computed once for each chunk and pattern.
Pattern(name) ==
    CASE name = "duration" -> DurationPattern
      [] name = "frame" -> FramePattern
      [] name = "fps" -> FpsPattern
      [] name = "q" -> QPattern
      [] name = "size" -> SizePattern
      [] name = "time" -> TimePattern
      [] name = "bitrate" -> BitratePattern
      [] name = "speed" -> SpeedPattern
PatternNames == {"duration", "frame", "fps", "q", "size", "time", "bitrate", "speed"}
MatchTable ==
    [data \in ParseChunks \cup BufChunks |-> [name \in PatternNames |-> FirstMatch(data, Pattern(name))]]
Match(data, name) == MatchTable[data][name]

(***************************************************************************)
(* The progress snapshot and onStderrData.                                 *)
(***************************************************************************)
EmptyProgress ==
    [duration |-> Null, percent |-> Null, frame |-> Null, fps |-> Null,
     quality |-> Null, sizeKB |-> Null, timeInSeconds |-> Null,
     bitrateKbps |-> Null, speed |-> Null]

\* The numeric fields other than duration and percent.
NumericFields == {"frame", "fps", "quality", "sizeKB", "timeInSeconds", "bitrateKbps", "speed"}

\* A duration line that is read whether or not the duration is known.
DiscoverDurationAgain(p, data) ==
    LET durMatch == Match(data, "duration")
    IN  IF durMatch # NoMatch
        THEN [p EXCEPT !.duration =
                 HMSSeconds(ParseInt(Hours(data, durMatch, DurationLit)),
                            ParseInt(Minutes(data, durMatch, DurationLit)),
                            ParseFloat(Seconds(data, durMatch, DurationLit)))]
        ELSE p

\* if (this._progress.duration === null) { ... }: the duration is looked for
\* only while it is unknown, and stored only when all three parts are numbers.
DiscoverDuration(p, data) ==
    IF p.duration = Null
    THEN LET durMatch == Match(data, "duration")
         IN  IF durMatch # NoMatch
             THEN LET hours == ParseInt(Hours(data, durMatch, DurationLit))
                      minutes == ParseInt(Minutes(data, durMatch, DurationLit))
                      seconds == ParseFloat(Seconds(data, durMatch, DurationLit))
                  IN  IF hours # NaN /\ minutes # NaN /\ seconds # NaN
                      THEN [p EXCEPT !.duration = HMSSeconds(hours, minutes, seconds)]
                      ELSE p
             ELSE p
    ELSE p

SetFrame(p, data) ==
    LET frameMatch == Match(data, "frame")
    IN  IF frameMatch # NoMatch
        THEN [p EXCEPT !.frame = ParseInt(Capture(data, frameMatch, FrameLit))]
        ELSE p

SetFps(p, data) ==
    LET fpsMatch == Match(data, "fps")
    IN  IF fpsMatch # NoMatch
        THEN [p EXCEPT !.fps = ParseFloat(Capture(data, fpsMatch, FpsLit))]
        ELSE p

SetQuality(p, data) ==
    LET qMatch == Match(data, "q")
    IN  IF qMatch # NoMatch
        THEN [p EXCEPT !.quality = ParseFloat(Capture(data, qMatch, QLit))]
        ELSE p

SetSize(p, data) ==
    LET sizeMatch == Match(data, "size")
    IN  IF sizeMatch # NoMatch
        THEN [p EXCEPT !.sizeKB = ParseFloat(Capture(data, sizeMatch, SizeLit))]
        ELSE p

\* The ratio without the factor 100.
PercentAsFraction(timeInSeconds, duration) == RatDiv(timeInSeconds, duration)

\* (timeInSeconds / duration) * 100
Percent(timeInSeconds, duration) == RatMul(RatDiv(timeInSeconds, duration), RatInt(100))

\* A time line that leaves percent as it was.
SetTimeKeepsPercent(p, data) ==
    LET timeMatch == Match(data, "time")
    IN  IF timeMatch # NoMatch
        THEN [p EXCEPT !.timeInSeconds =
                 HMSSeconds(ParseInt(Hours(data, timeMatch, TimeLit)),
                            ParseInt(Minutes(data, timeMatch, TimeLit)),
                            ParseFloat(Seconds(data, timeMatch, TimeLit))),
                       !.percent = IF @ = Null /\ RatLt(RatInt(0), p.duration)
                                   THEN RatInt(0) ELSE @]
        ELSE p

SetTime(p, data) ==
    LET timeMatch == Match(data, "time")
    IN  IF timeMatch # NoMatch
        THEN LET hours == ParseInt(Hours(data, timeMatch, TimeLit))
                 minutes == ParseInt(Minutes(data, timeMatch, TimeLit))
                 seconds == ParseFloat(Seconds(data, timeMatch, TimeLit))
                 t == HMSSeconds(hours, minutes, seconds)
             IN  IF hours # NaN /\ minutes # NaN /\ seconds # NaN
                 THEN IF RatLt(RatInt(0), p.duration)
                      THEN [p EXCEPT !.timeInSeconds = t, !.percent = Percent(t, p.duration)]
                      ELSE [p EXCEPT !.timeInSeconds = t]
                 ELSE p
        ELSE p

SetBitrate(p, data) ==
    LET bitrateMatch == Match(data, "bitrate")
    IN  IF bitrateMatch # NoMatch
        THEN [p EXCEPT !.bitrateKbps = ParseFloat(Capture(data, bitrateMatch, BitrateLit))]
        ELSE p

SetSpeed(p, data) ==
    LET speedMatch == Match(data, "speed")
    IN  IF speedMatch # NoMatch
        THEN [p EXCEPT !.speed = ParseFloat(Capture(data, speedMatch, SpeedLit))]
        ELSE p

\* if (this._progress.duration !== null) { ... }: the fields, in the order of
\* the code.
TrackProgress(p, data) ==
    SetSpeed(SetBitrate(SetTime(SetSize(SetQuality(SetFps(SetFrame(p, data), data), data), data), data), data), data)

\* this._progress after onStderrData(data) when it was p before.
\* An onStderrData that reads the frame counter whatever the duration is.
ProgressAfterFrameAlways(p, data) ==
    LET d == DiscoverDuration(p, data)
    IN  IF d.duration # Null THEN TrackProgress(d, data) ELSE SetFrame(d, data)

ProgressAfter(p, data) ==
    LET d == DiscoverDuration(p, data)
    IN  IF d.duration # Null THEN TrackProgress(d, data) ELSE d

\* An onStderrData that emits only when the chunk changed the snapshot.
ProgressEventsOnChange(p, data) ==
    IF ProgressAfter(p, data) # p
    THEN <<[type |-> "progress", payload |-> ProgressAfter(p, data)]>>
    ELSE <<>>

\* The events onStderrData(data) emits: this._emit("progress", this.progress)
\* inside the second if.
ProgressEvents(p, data) ==
    IF DiscoverDuration(p, data).duration # Null
    THEN <<[type |-> "progress", payload |-> ProgressAfter(p, data)]>>
    ELSE <<>>

(***************************************************************************)
(* The instance, its child processes and the results of start().           *)
(***************************************************************************)
\* this.child === null
NoChild == 0

Procs == 1..MaxProcs

\* Result<void, FFMPEGSpawnErr>: ok(), err({code, message}); Pending is the
\* promise of a start() that has not resolved yet, NoPromise no promise at all.
Ok == [state |-> "ok"]
Err(code, message) == [state |-> "err", code |-> code, message |-> message]
Pending == [state |-> "pending"]
NoPromise == [state |-> "none"]

AlreadyStartedMsg == <<"F", "F", "M", "P", "E", "G", " ", "p", "r", "o", "c", "e", "s", "s", " ", "a", "l", "r", "e", "a", "d", "y", " ", "s", "t", "a", "r", "t", "e", "d">>
\* String(e) of what spawn throws, and the messages of the 'error' events of a
\* failed spawn and of a failed kill.
SpawnThrowMsg == <<"T", "y", "p", "e", "E", "r", "r", "o", "r">>
SpawnErrorMsg == <<"s", "p", "a", "w", "n", " ", "E", "N", "O", "E", "N", "T">>
KillErrorMsg == <<"k", "i", "l", "l", " ", "E", "P", "E", "R", "M">>

\* What a process ends with: a numeric status, or none when a signal ended it.
Status(code) == [hasCode |-> TRUE, code |-> code]
BySignal == [hasCode |-> FALSE, code |-> 0]
ExitStatuses == {Status(0), Status(1), BySignal}
\* The status the 'close' of a process that could not be spawned carries: the
\* negated errno.
SpawnFailedStatus == Status(-2)

\* A process: st is "unspawned", "running" (alive), "failed" (spawn returned a
\* child that could not be started; its 'error' is due), "exited" (not alive,
\* its 'close' is due) or "closed"; closeArmed and errorArmed say whether the
\* once-listeners of 'close' and 'error' are still registered; signalled says
\* whether a signal of stop() was delivered to it; status is what its 'close'
\* carries (of a running process: not known before it ends).
Unspawned ==
    [st |-> "unspawned", status |-> BySignal, closeArmed |-> FALSE,
     errorArmed |-> FALSE, signalled |-> FALSE]
Spawned(st) ==
    [st |-> st, status |-> IF st = "failed" THEN SpawnFailedStatus ELSE BySignal,
     closeArmed |-> TRUE, errorArmed |-> TRUE, signalled |-> FALSE]

Alive(p) == procs[p].st = "running"
\* Whether p is a child that could not be started.
SpawnFailed(p) == procs[p].st # "unspawned" /\ procs[p].status = SpawnFailedStatus
\* Whether the output streams of p can still deliver chunks.
StreamsOpen(p) == procs[p].st \in {"running", "exited"}

\* A getter that never reports a live process.
NeverProcessing == FALSE

\* get processing()
processing == child # NoChild

Step(op, p, data, ret, res, kill) ==
    [op |-> op, p |-> p, data |-> data, ret |-> ret, res |-> res, kill |-> kill]

Init ==
    /\ child = NoChild
    /\ lastStderr = <<>>
    /\ progress = EmptyProgress
    /\ killed = FALSE
    /\ procs = [p \in Procs |-> Unspawned]
    /\ promise = [p \in Procs |-> NoPromise]
    /\ nspawned = 0
    /\ nchunks = 0
    /\ emitted = <<>>
    /\ last = Step("new", NoChild, <<>>, FALSE, NoPromise, FALSE)
    /\ received = <<>>

(***************************************************************************)
(* start()                                                                 *)
(***************************************************************************)
\* A start() that re-arms this._killed.
KilledRearmedByStart(k) == FALSE

\* this._killed after start(): start() does not assign it.
KilledAfterStart(k) == k

\* A start() that keeps the snapshot of the run before.
ProgressKeptByStart(p) == p

\* this._progress after start(): this._progress = EmptyProgress()
ProgressAfterStart(p) == EmptyProgress

\* if (this.processing) return err({ code: -1, message: "..." })
StartAlready ==
    /\ processing
    /\ last' = Step("start", NoChild, <<>>, FALSE, Err(-1, AlreadyStartedMsg), FALSE)
    /\ emitted' = <<>>
    /\ UNCHANGED <<child, lastStderr, progress, killed, procs, promise, nspawned, nchunks,
                 received>>

\* spawn throws: the buffer and the snapshot are already reset, this.child is
\* not assigned.
StartSpawnThrows ==
    /\ ~processing
    /\ lastStderr' = <<>>
    /\ progress' = ProgressAfterStart(progress)
    /\ killed' = KilledAfterStart(killed)
    /\ last' = Step("start", NoChild, <<>>, FALSE, Err(-1, SpawnThrowMsg), FALSE)
    /\ emitted' = <<>>
    /\ received' = <<>>
    /\ UNCHANGED <<child, procs, promise, nspawned, nchunks>>

\* spawn returns a child, running or one that could not be started; the
\* listeners are registered and the promise is returned.
StartSpawned(st) ==
    /\ ~processing
    /\ nspawned < MaxProcs
    /\ LET p == nspawned + 1
       IN  /\ nspawned' = p
           /\ child' = p
           /\ procs' = [procs EXCEPT ![p] = Spawned(st)]
           /\ promise' = [promise EXCEPT ![p] = Pending]
           /\ last' = Step("start", p, <<>>, FALSE, Pending, FALSE)
    /\ lastStderr' = <<>>
    /\ progress' = ProgressAfterStart(progress)
    /\ killed' = KilledAfterStart(killed)
    /\ emitted' = <<>>
    /\ received' = <<>>
    /\ UNCHANGED nchunks

start ==
    \/ StartAlready
    \/ StartSpawnThrows
    \/ \E st \in {"running", "failed"} : StartSpawned(st)

(***************************************************************************)
(* The handlers of the child's events, registered by start().  They are    *)
(* closures over the child of their own start() and over `this`.           *)
(***************************************************************************)
\* resolve(result) on the promise pr: only a pending promise takes it.
\* A promise that takes the result of every notification.
ResolveAgain(pr, result) == result

Resolve(pr, result) == IF pr.state = "pending" THEN result ELSE pr

\* Handlers that do not clear this.child.
ChildKeptAfterEnd(c) == c

\* this.child after the 'close' or the 'error' handler: this.child = null
ChildAfterEnd(c) == NoChild

\* A 'close' handler whose failures all carry the code -1.
CloseResultSentinel(status, stderr) ==
    IF status.hasCode /\ status.code = 0 THEN Ok ELSE Err(-1, stderr)

\* code === 0 ? ok() : err({ code: code ?? -1, message: this.lastStderr })
CloseResult(status, stderr) ==
    IF status.hasCode /\ status.code = 0 THEN Ok
    ELSE Err(IF status.hasCode THEN status.code ELSE -1, stderr)

\* An 'error' handler that resolves with ok().
ErrorResultOk(message) == Ok

\* err({ code: -1, message: e.message })
ErrorResult(message) == Err(-1, message)

AppendStderrKeepsHead(buf, data) ==
    LET s == buf \o data
    IN  IF Len(s) > MAX_STDERR_LENGTH THEN SubSeq(s, 1, MAX_STDERR_LENGTH) ELSE s

\* this.lastStderr after a chunk: += data, then slice(-MAX_STDERR_LENGTH)
AppendStderr(buf, data) ==
    LET s == buf \o data
    IN  IF Len(s) > MAX_STDERR_LENGTH
        THEN SubSeq(s, Len(s) - MAX_STDERR_LENGTH + 1, Len(s))
        ELSE s

\* child.stdout.on("data", ...)
StdoutData(p, data) ==
    /\ StreamsOpen(p)
    /\ nchunks' = nchunks + 1
    /\ emitted' = <<[type |-> "stdout", payload |-> data]>>
    /\ last' = Step("stdout", p, data, FALSE, NoPromise, FALSE)
    /\ UNCHANGED <<child, lastStderr, progress, killed, procs, promise, nspawned,
                 received>>

\* this._emit("stderr", data): the event carries the chunk; seen is what
\* this.progress gives a subscriber that reads it while the event is delivered.
StderrEvent(data, snapshot) == [type |-> "stderr", payload |-> data, seen |-> snapshot]

\* A handler that emits 'stderr' after the chunk was parsed.
StderrEmitsAfterParse(p, data) ==
    ProgressEvents(p, data) \o <<StderrEvent(data, ProgressAfter(p, data))>>

\* The events of the stderr data handler, in order: 'stderr' first, then what
\* onStderrData emits.
StderrEmits(p, data) == <<StderrEvent(data, p)>> \o ProgressEvents(p, data)

\* child.stderr.on("data", ...)
StderrData(p, data) ==
    /\ StreamsOpen(p)
    /\ nchunks' = nchunks + 1
    /\ emitted' = StderrEmits(progress, data)
    /\ lastStderr' = AppendStderr(lastStderr, data)
    /\ progress' = ProgressAfter(progress, data)
    /\ last' = Step("stderr", p, data, FALSE, NoPromise, FALSE)
    /\ received' = Append(received, data)
    /\ UNCHANGED <<child, killed, procs, promise, nspawned>>

\* The process p ends on its own or by a signal, with any status.
Exit(p, status) ==
    /\ Alive(p)
    /\ procs' = [procs EXCEPT ![p].st = "exited", ![p].status = status]
    /\ emitted' = <<>>
    /\ last' = Step("exit", p, <<>>, FALSE, NoPromise, FALSE)
    /\ UNCHANGED <<child, lastStderr, progress, killed, promise, nspawned, nchunks,
                 received>>

\* child.once("close", ...): after the process has ended and its streams
\* have closed.
OnClose(p) ==
    /\ procs[p].st = "exited"
    /\ procs[p].closeArmed
    /\ child' = ChildAfterEnd(child)
    /\ promise' = [promise EXCEPT ![p] = Resolve(@, CloseResult(procs[p].status, lastStderr))]
    /\ procs' = [procs EXCEPT ![p].st = "closed", ![p].closeArmed = FALSE]
    /\ emitted' = <<>>
    /\ last' = Step("close", p, <<>>, FALSE, NoPromise, FALSE)
    /\ UNCHANGED <<lastStderr, progress, killed, nspawned, nchunks,
                 received>>

\* child.once("error", ...) for a child that could not be started: 'error'
\* first, 'close' (with the negated errno) after it.
OnError(p) ==
    /\ procs[p].st = "failed"
    /\ procs[p].errorArmed
    /\ child' = ChildAfterEnd(child)
    /\ promise' = [promise EXCEPT ![p] = Resolve(@, ErrorResult(SpawnErrorMsg))]
    /\ procs' = [procs EXCEPT ![p].st = "exited", ![p].errorArmed = FALSE]
    /\ emitted' = <<>>
    /\ last' = Step("error", p, <<>>, FALSE, NoPromise, FALSE)
    /\ UNCHANGED <<lastStderr, progress, killed, nspawned, nchunks,
                 received>>

(***************************************************************************)
(* stop(signal)                                                            *)
(***************************************************************************)
\* A stop() that does not look at this._killed.
StopGuardIgnoresKilled(c, k) == c # NoChild

\* if (this.child && !this._killed)
StopGuard(c, k) == c # NoChild /\ ~k

\* A stop() that sets this._killed whatever kill returns and whether or not
\* it was called.
KilledSetByAnyStop(k, accepted) == TRUE

\* this._killed after stop(): set to true only inside if (this.child.kill(signal))
KilledAfterStop(k, accepted) == IF accepted THEN TRUE ELSE k

\* The guard fails: return false.
StopRefused ==
    /\ ~StopGuard(child, killed)
    /\ killed' = KilledAfterStop(killed, FALSE)
    /\ last' = Step("stop", child, <<>>, FALSE, NoPromise, FALSE)
    /\ emitted' = <<>>
    /\ UNCHANGED <<child, lastStderr, progress, procs, promise, nspawned, nchunks,
                 received>>

\* this.child.kill(signal) is accepted: the signal is delivered to the live
\* process, this._killed = true, return true.
StopAccepted ==
    /\ StopGuard(child, killed)
    /\ Alive(child)
    /\ killed' = KilledAfterStop(killed, TRUE)
    /\ procs' = [procs EXCEPT ![child].signalled = TRUE]
    /\ last' = Step("stop", child, <<>>, TRUE, NoPromise, TRUE)
    /\ emitted' = <<>>
    /\ UNCHANGED <<child, lastStderr, progress, promise, nspawned, nchunks,
                 received>>

\* this.child.kill(signal) finds no live process (it has ended and 'close' is
\* due, or it could not be started): kill returns false, return false.
StopNoProcess ==
    /\ StopGuard(child, killed)
    /\ ~Alive(child)
    /\ killed' = KilledAfterStop(killed, FALSE)
    /\ last' = Step("stop", child, <<>>, FALSE, NoPromise, TRUE)
    /\ emitted' = <<>>
    /\ UNCHANGED <<child, lastStderr, progress, procs, promise, nspawned, nchunks,
                 received>>

\* this.child.kill(signal) is refused by the system for a live process: kill
\* emits 'error' on the child before it returns false, so the 'error' handler
\* of start() runs inside stop(), and the process stays alive.
StopKillFails ==
    /\ StopGuard(child, killed)
    /\ Alive(child)
    /\ procs[child].errorArmed
    /\ child' = ChildAfterEnd(child)
    /\ promise' = [promise EXCEPT ![child] = Resolve(@, ErrorResult(KillErrorMsg))]
    /\ procs' = [procs EXCEPT ![child].errorArmed = FALSE]
    /\ killed' = KilledAfterStop(killed, FALSE)
    /\ last' = Step("stop", child, <<>>, FALSE, NoPromise, TRUE)
    /\ emitted' = <<>>
    /\ UNCHANGED <<lastStderr, progress, nspawned, nchunks,
                 received>>

stop == StopRefused \/ StopAccepted \/ StopNoProcess \/ StopKillFails

(***************************************************************************)
(* Specifications.                                                         *)
(***************************************************************************)
Next ==
    \/ start
    \/ stop
    \/ \E p \in Procs, data \in Chunks : nchunks < MaxChunks /\ StderrData(p, data)
    \/ \E p \in Procs, data \in StdoutChunks : nchunks < MaxChunks /\ StdoutData(p, data)
    \/ \E p \in Procs, status \in ExitStatuses : Exit(p, status)
    \/ \E p \in Procs : OnClose(p)
    \/ \E p \in Procs : OnError(p)

Spec == Init /\ [][Next]_vars

\* One run of one process, with every chunk of ParseChunks.
NextParse ==
    \/ nspawned = 0 /\ StartSpawned("running")
    \/ \E data \in ParseChunks : nchunks < MaxParseChunks /\ StderrData(1, data)
    \/ \E status \in ExitStatuses : Exit(1, status)
    \/ OnClose(1)

SpecParse == Init /\ [][NextParse]_vars

\* Runs of the instance whose processes write the long chunks of BufChunks.
NextBuf ==
    \/ StartSpawned("running")
    \/ \E p \in Procs, data \in BufChunks : nchunks < MaxBufChunks /\ StderrData(p, data)
    \/ \E p \in Procs : Exit(p, Status(0))
    \/ \E p \in Procs : OnClose(p)

SpecBuf == Init /\ [][NextBuf]_vars

\* Runs of the instance, one after the other, with the chunks of RunChunks.
NextRuns ==
    \/ StartSpawned("running")
    \/ \E p \in Procs, data \in RunChunks : nchunks < MaxParseChunks /\ StderrData(p, data)
    \/ \E p \in Procs : Exit(p, Status(0))
    \/ \E p \in Procs : OnClose(p)

SpecRuns == Init /\ [][NextRuns]_vars

(***************************************************************************)
(* Properties.                                                             *)
(***************************************************************************)
LiveProcs == {p \in Procs : Alive(p)}
\* The fields of the instance and the processes and promises around it.
InstanceState == <<child, lastStderr, progress, killed, procs, promise, nspawned>>

\* C1: at most one process spawned by the instance is alive at any time.
C1_OneLiveProcess == Cardinality(LiveProcs) <= 1

\* C2: while a spawned process is alive processing is true; when stop()
\* returns true killed is true on return; the start() of a process that a
\* stop() signalled never resolves to success; and processing is false once a
\* 'close' or 'error' handler has resolved the start().
C2_StopLeadsToFailure ==
    /\ \A p \in Procs : Alive(p) => processing
    /\ (last.op = "stop" /\ last.ret) => killed
    /\ \A p \in Procs :
          (procs[p].signalled /\ promise[p] # Pending) => promise[p].state = "err"
    /\ last.op \in {"close", "error"} => ~processing

\* C3: a stop() that returns true was called with killed false on a live
\* process, signals it and sets killed; the stop() called right after a stop()
\* that returned true returns false, does not call kill, signals no process,
\* and leaves killed true.
C3_SecondStopRefused ==
    [][last'.op = "stop" =>
         /\ last'.ret =>
              (~killed /\ killed' /\ last'.kill /\ Alive(child)
                 /\ procs'[child].signalled /\ child' = child)
         /\ (last.op = "stop" /\ last.ret) =>
              (~last'.ret /\ ~last'.kill /\ killed' /\ procs' = procs)]_vars
C3_Witness ==
    /\ last.op = "stop" /\ ~last.ret /\ ~last.kill
    /\ killed /\ child # NoChild /\ Alive(child) /\ procs[child].signalled

\* C4: a 'close' with status 0 resolves the pending start() of its process to
\* success, and whenever a pending start() is resolved (to success or to
\* failure) this.child is null after that step.
C4_CloseZeroResolvesOk ==
    [][\A p \in Procs :
         /\ (last'.op = "close" /\ last'.p = p /\ promise[p] = Pending
               /\ procs[p].status = Status(0)) => promise'[p] = Ok
         /\ (promise[p] = Pending /\ promise'[p] # Pending) => child' = NoChild]_vars
C4_Witness ==
    /\ last.op = "close" /\ promise[last.p] = Ok /\ child = NoChild

\* C5: a start() whose spawn throws returns a failure with code -1 and the
\* text of what was thrown and leaves this.child null; the start() of a child
\* that could not be started never resolves to success, is resolved by the
\* child's 'error' to a failure with code -1 and the error's message, and
\* this.child is null after the step that resolves it.
C5_SpawnFailureFails ==
    [][/\ (last'.op = "start" /\ child = NoChild /\ nspawned' = nspawned) =>
            /\ last'.res = Err(-1, SpawnThrowMsg)
            /\ last'.res.code \in Int /\ last'.res.message \in Seq(STRING)
            /\ child' = NoChild
       /\ \A p \in Procs : SpawnFailed(p)' =>
            /\ promise'[p].state \in {"pending", "err"}
            /\ procs'[p].st # "failed" => promise'[p] = Err(-1, SpawnErrorMsg)
            /\ (promise[p] = Pending /\ promise'[p] # Pending) => child' = NoChild]_vars
C5_Witness ==
    /\ last.op = "error" /\ SpawnFailed(last.p)
    /\ promise[last.p] = Err(-1, SpawnErrorMsg) /\ child = NoChild

\* C6: a start() called while this.child is not null returns the
\* already-started failure (code -1) and changes no field of the instance, no
\* process and no promise.
C6_StartWhileProcessing ==
    [][(last'.op = "start" /\ child # NoChild) =>
         /\ last'.res = Err(-1, AlreadyStartedMsg)
         /\ InstanceState' = InstanceState]_vars
C6_Witness ==
    /\ last.op = "start" /\ last.res = Err(-1, AlreadyStartedMsg)
    /\ lastStderr # <<>> /\ progress.duration # Null /\ Alive(child)

\* C7: a stop() called while this.child is null returns false, does not call
\* kill and changes no field of the instance, no process and no promise; while
\* no process was ever spawned killed is false.
C7_StopWhenIdle ==
    /\ [](nspawned = 0 => ~killed)
    /\ [][(last'.op = "stop" /\ child = NoChild) =>
            /\ ~last'.ret /\ ~last'.kill
            /\ InstanceState' = InstanceState]_vars
C7_Witness ==
    /\ last.op = "stop" /\ ~last.ret /\ child = NoChild
    /\ nspawned > 0 /\ \A p \in Procs : ~Alive(p)

\* The pattern of a numeric field, and the number its capture parses to in a
\* chunk the pattern matches.
FieldPattern(f) ==
    CASE f = "frame" -> "frame" [] f = "fps" -> "fps" [] f = "quality" -> "q"
      [] f = "sizeKB" -> "size" [] f = "timeInSeconds" -> "time"
      [] f = "bitrateKbps" -> "bitrate" [] f = "speed" -> "speed"
FieldNumber(f, data) ==
    LET m == Match(data, FieldPattern(f))
    IN  CASE f = "frame" -> ParseInt(Capture(data, m, FrameLit))
          [] f = "fps" -> ParseFloat(Capture(data, m, FpsLit))
          [] f = "quality" -> ParseFloat(Capture(data, m, QLit))
          [] f = "sizeKB" -> ParseFloat(Capture(data, m, SizeLit))
          [] f = "bitrateKbps" -> ParseFloat(Capture(data, m, BitrateLit))
          [] f = "speed" -> ParseFloat(Capture(data, m, SpeedLit))
          [] f = "timeInSeconds" ->
               IF \/ ParseInt(Hours(data, m, TimeLit)) = NaN
                  \/ ParseInt(Minutes(data, m, TimeLit)) = NaN
                  \/ ParseFloat(Seconds(data, m, TimeLit)) = NaN
               THEN NaN
               ELSE HMSSeconds(ParseInt(Hours(data, m, TimeLit)),
                               ParseInt(Minutes(data, m, TimeLit)),
                               ParseFloat(Seconds(data, m, TimeLit)))
\* The chunk matches the pattern of f and the capture is no number.
Unparsable(f, data) ==
    Match(data, FieldPattern(f)) # NoMatch /\ FieldNumber(f, data) = NaN

\* C8: a stderr chunk in which the pattern of a numeric field matches text
\* that does not parse as a number leaves the field as it was, and resolves
\* no start().
C8_UnparsableKeepsField ==
    [][last'.op = "stderr" =>
         \A f \in NumericFields :
            Unparsable(f, last'.data) => (progress'[f] = progress[f] /\ promise' = promise)]_vars

\* The snapshots the last step delivered in progress events.
Delivered == {emitted[i].payload : i \in {j \in 1..Len(emitted) : emitted[j].type = "progress"}}

\* C9: every snapshot delivered by a progress event has percent null or
\* between 0 and 100 (with a tolerance of 1).
C9_PercentWithin100 ==
    \A snap \in Delivered :
        snap.percent # Null =>
            RatLeq(RatInt(0), snap.percent) /\ RatLeq(snap.percent, RatInt(101))
\* C9 as amended: every snapshot delivered by a progress event has percent
\* null, or timeInSeconds and a positive duration known and percent at least
\* 0 and equal to timeInSeconds / duration * 100: at most 100 exactly when
\* timeInSeconds is at most duration, and above 100 when it exceeds duration.
C9_PercentTracksTime ==
    \A snap \in Delivered :
        snap.percent # Null =>
            /\ IsNumber(snap.percent) /\ IsNumber(snap.timeInSeconds)
            /\ IsNumber(snap.duration) /\ RatLt(RatInt(0), snap.duration)
            /\ RatLeq(RatInt(0), snap.percent)
            /\ RatMul(snap.percent, snap.duration) = RatMul(RatInt(100), snap.timeInSeconds)
            /\ RatLeq(snap.percent, RatInt(100)) <=> RatLeq(snap.timeInSeconds, snap.duration)
C9_Witness ==
    \E snap \in Delivered :
        /\ snap.percent # Null /\ RatLt(RatInt(101), snap.percent)
        /\ RatLt(snap.duration, snap.timeInSeconds)

\* C10: once killed is true it stays true, through the end of the run and
\* through later start() calls; and a stop() called while killed is true
\* returns false, does not call kill and signals no process.
C10_KilledIsSticky ==
    /\ [][killed => killed']_vars
    /\ [][(killed /\ last'.op = "stop") =>
            (~last'.ret /\ ~last'.kill /\ procs' = procs)]_vars
C10_Witness ==
    /\ killed /\ last.op = "stop" /\ ~last.ret
    /\ child # NoChild /\ Alive(child) /\ ~procs[child].signalled
    /\ \E p \in Procs : p # child /\ procs[p].signalled

(***************************************************************************)
(* The trailing stderr buffer.                                             *)
(***************************************************************************)
\* The text of a sequence of chunks, in order.
RECURSIVE Concat(_)
Concat(chunks) == IF chunks = <<>> THEN <<>> ELSE Head(chunks) \o Concat(Tail(chunks))

\* The last n characters of s, all of s when it is shorter.
LastChars(s, n) == IF Len(s) > n THEN SubSeq(s, Len(s) - n + 1, Len(s)) ELSE s

\* C11: after every stderr chunk the trailing buffer holds exactly the last
\* min(32000, n) characters of the concatenation, n characters long, of the
\* stderr chunks received since the most recent accepted start(): it is never
\* longer than 32000 characters and the oldest characters are the ones dropped.
C11_TrailingBuffer ==
    /\ Len(lastStderr) <= MAX_STDERR_LENGTH
    /\ lastStderr = LastChars(Concat(received), MAX_STDERR_LENGTH)

\* A chunk has just pushed the received text beyond the length of the buffer.
C11_Witness ==
    /\ last.op = "stderr"
    /\ Len(Concat(received)) > MAX_STDERR_LENGTH
    /\ Len(lastStderr) = MAX_STDERR_LENGTH

(***************************************************************************)
(* The result of start().                                                  *)
(***************************************************************************)
\* C12: a 'close' with a non-zero numeric status resolves the pending start()
\* of its process to a failure whose code is that status and whose message is
\* the trailing stderr buffer at the time of the 'close'; a 'close' with no
\* numeric status resolves it to a failure with code -1 and the same message;
\* an 'error' that resolves it gives a failure with code -1 and the error's
\* message.
C12_FailureResults ==
    [][\A p \in Procs : (promise[p] = Pending /\ promise'[p] # Pending) =>
         LET status == procs[p].status
         IN  /\ last'.p = p
             /\ last'.op \in {"close", "error", "stop"}
             /\ (last'.op = "close" /\ status.hasCode /\ status.code # 0) =>
                    promise'[p] = Err(status.code, lastStderr)
             /\ (last'.op = "close" /\ ~status.hasCode) =>
                    promise'[p] = Err(-1, lastStderr)
             /\ last'.op = "error" => promise'[p] = Err(-1, SpawnErrorMsg)
             /\ last'.op = "stop" => promise'[p] = Err(-1, KillErrorMsg)]_vars

\* A 'close' with status 1 has resolved a start() after stderr output.
C12_Witness ==
    /\ last.op = "close"
    /\ lastStderr # <<>>
    /\ promise[last.p] = Err(1, lastStderr)

\* C13: the start() of a process is resolved at most once: a result, once
\* delivered, never changes, whether the 'error' or the 'close' of the process
\* comes after it; and a notification of a process changes the result of no
\* start() other than the one that spawned that process.
C13_ResolvedOnce ==
    [][\A p \in Procs :
         /\ promise[p].state \in {"ok", "err"} => promise'[p] = promise[p]
         /\ promise'[p] # promise[p] => last'.p = p
         /\ (promise[p] = Pending /\ promise'[p] # Pending) =>
                \A q \in Procs \ {p} : promise'[q] = promise[q]]_vars

\* The 'close' of a process arrives after its 'error' has resolved the start().
C13_Witness ==
    /\ last.op = "close"
    /\ ~procs[last.p].errorArmed /\ ~procs[last.p].closeArmed
    /\ promise[last.p] \in {Err(-1, KillErrorMsg), Err(-1, SpawnErrorMsg)}

(***************************************************************************)
(* The events of a stderr chunk.                                           *)
(***************************************************************************)
\* C14: the handler of a stderr chunk emits the 'stderr' event first, with the
\* chunk as it was delivered and while this.progress is still the snapshot
\* from before the chunk; the 'progress' event of the chunk, when there is
\* one, comes after it and within the same handler, so before the 'stderr'
\* event of any later chunk; no other step emits a 'stderr' event.
C14_StderrBeforeProgress ==
    [][/\ last'.op = "stderr" =>
            /\ Len(emitted') >= 1
            /\ emitted'[1] = StderrEvent(last'.data, progress)
            /\ \A i \in 2..Len(emitted') : emitted'[i].type = "progress"
       /\ last'.op # "stderr" =>
            \A i \in 1..Len(emitted') : emitted'[i].type # "stderr"]_vars

\* A chunk whose 'stderr' event saw another snapshot than the one its
\* 'progress' event delivered.
C14_Witness ==
    /\ last.op = "stderr"
    /\ Len(emitted) = 2
    /\ emitted[1].type = "stderr" /\ emitted[2].type = "progress"
    /\ emitted[1].seen # emitted[2].payload

\* The number of 'progress' events the last step emitted.
ProgressEmits == Cardinality({i \in 1..Len(emitted) : emitted[i].type = "progress"})

\* C15: the handler of a stderr chunk emits exactly one 'progress' event when
\* the duration is known once the chunk's duration line, if any, was looked
\* for, and none when the duration is still unknown then; no other step emits
\* a 'progress' event.
C15_ProgressIffDuration ==
    [][/\ (last'.op = "stderr" /\ progress'.duration # Null) => ProgressEmits' = 1
       /\ (last'.op = "stderr" /\ progress'.duration = Null) => ProgressEmits' = 0
       /\ last'.op # "stderr" => ProgressEmits' = 0]_vars

\* A chunk that changed nothing in a snapshot with a known duration has emitted
\* its 'progress' event.
C15_Witness ==
    /\ last.op = "stderr" /\ last.data = ChunkNoise
    /\ progress.duration # Null
    /\ ProgressEmits = 1

(***************************************************************************)
(* The progress snapshot.                                                  *)
(***************************************************************************)
\* C16: in every reachable state percent is known only if duration is known
\* and positive, and a known percent equals timeInSeconds / duration * 100 for
\* the timeInSeconds and the duration of the same snapshot.
C16_PercentDefined ==
    progress.percent # Null =>
        /\ IsNumber(progress.percent)
        /\ IsNumber(progress.duration) /\ RatLt(RatInt(0), progress.duration)
        /\ IsNumber(progress.timeInSeconds)
        /\ progress.percent
             = RatMul(RatDiv(progress.timeInSeconds, progress.duration), RatInt(100))

\* The second time line of a run has just replaced percent.
C16_Witness ==
    /\ last.op = "stderr" /\ last.data = ChunkLate
    /\ progress.percent = RatInt(200)
    /\ Len(received) = MaxParseChunks

\* The chunks with a duration line and nothing else that onStderrData reads.
DurationOnlyChunks == {ChunkDuration, ChunkZeroDuration, ChunkOtherDuration}

\* C17: while duration is unknown every other field of the snapshot is
\* unknown, whatever the chunks handled so far contained; and a chunk holding
\* only a duration line, handled while duration is unknown, sets duration and
\* leaves every other field unknown.
C17_NothingBeforeDuration ==
    /\ [](progress.duration = Null => progress = EmptyProgress)
    /\ [][(last'.op = "stderr" /\ progress.duration = Null
             /\ last'.data \in DurationOnlyChunks) =>
            /\ IsNumber(progress'.duration)
            /\ progress' = [EmptyProgress EXCEPT !.duration = progress'.duration]]_vars

\* A duration line has arrived after a statistics line that was not read.
C17_Witness ==
    /\ last.op = "stderr" /\ last.data \in DurationOnlyChunks
    /\ Len(received) = 2 /\ received[1] = ChunkStats
    /\ progress = [EmptyProgress EXCEPT !.duration = progress.duration]
    /\ IsNumber(progress.duration)

\* C18: a known duration keeps its value through every later stderr chunk,
\* also one with another duration line; it changes only by the reset of a
\* start(), which makes it unknown again.
C18_DurationKept ==
    [][progress.duration # Null =>
         \/ progress'.duration = progress.duration
         \/ /\ last'.op = "start"
            /\ received' = <<>>
            /\ progress' = EmptyProgress]_vars

\* A chunk with the duration line of 60 seconds has been handled after the
\* duration of 10.5 seconds was discovered.
C18_Witness ==
    /\ last.op = "stderr" /\ last.data = ChunkOtherDuration
    /\ Len(received) >= 2 /\ received[1] = ChunkDuration
    /\ progress.duration = Rat(21, 2)

(***************************************************************************)
(* Runs that follow each other on one instance.                            *)
(***************************************************************************)
\* The snapshot that handling the chunks in order gives, from an empty one.
RECURSIVE SnapshotOf(_)
SnapshotOf(chunks) ==
    IF chunks = <<>> THEN EmptyProgress
    ELSE ProgressAfter(SnapshotOf(SubSeq(chunks, 1, Len(chunks) - 1)), chunks[Len(chunks)])

\* C19: every start() that passes the already-started check, the second and
\* later ones and the ones whose spawn throws or fails included, leaves the
\* trailing stderr buffer empty and every progress field unknown, and does not
\* touch killed; so in every state the snapshot and the buffer come from the
\* chunks handled since that start() alone, and hold no value and no text
\* that was handled before it.
C19_StartResets ==
    /\ [][(last'.op = "start" /\ child = NoChild) =>
            /\ lastStderr' = <<>>
            /\ progress' = EmptyProgress
            /\ killed' = killed]_vars
    /\ [](/\ progress = SnapshotOf(received)
          /\ lastStderr = Concat(received))

\* The second run has just started, after a first one that was stopped and
\* whose failure carried stderr text.
C19_Witness ==
    /\ last.op = "start" /\ child = 2
    /\ killed
    /\ promise[1].state = "err" /\ promise[1].message = ChunkDuration
    /\ lastStderr = <<>> /\ progress = EmptyProgress

\* C20: once the start() of a process is resolved and a later start() has made
\* another process the current child, the notifications of the earlier
\* process leave the later run alone: its 'close' and 'error' do not change
\* this.child, and its stderr chunks change neither the trailing buffer nor
\* the snapshot and emit no 'progress' event.
C20_EarlierRunIsolated ==
    [][\A p \in Procs :
         (last'.p = p /\ promise[p].state \in {"ok", "err"}
            /\ child # NoChild /\ child # p) =>
             /\ last'.op \in {"close", "error"} => child' = child
             /\ last'.op = "stderr" =>
                    /\ lastStderr' = lastStderr
                    /\ progress' = progress
                    /\ ProgressEmits' = 0]_vars

====
